---- MODULE Spec2Model ----
(***************************************************************************)
(* Model of the userland IPC runtime of libtock-rs:                        *)
(*   platform/src/async_helpers.rs  Yield, Executor, Share, SubscribeUpcall *)
(*   apis/kernel/ipc/src/lib.rs     Ipc                                     *)
(* The process is single threaded: every function of the source runs to    *)
(* its return without interleaving, except Executor::run, which is modelled *)
(* poll by poll.                                                            *)
(***************************************************************************)
EXTENDS Integers, Sequences, FiniteSets, TLC

VARIABLES
    kallow,     \* kernel: allow table, key <<class, driver, slot>> -> grant
    ksub,       \* kernel: subscribe table, key <<driver, slot>> -> binding
    shares,     \* the Share values ever constructed, by handle id
    subs,       \* the SubscribeUpcall values ever constructed, by handle id
    calls,      \* the syscalls issued by the most recent operation, in order
    ret,        \* what the most recent operation returned to its caller
    io,         \* the arguments of the most recent operation and the kernel's
                \* replies it read, in the order of calls
    task,       \* Executor.task: the futures handed to Executor::new
    done,       \* Executor.done
    all_done,   \* Executor::run: the local all_done
    i,          \* Executor::run: the index of the for loop (1-based)
    pc,         \* Executor::run: where the call stands
    sweeps,     \* the passes over the tasks begun by the current call of run
    polls,      \* per task, the polls it has received since construction
    runs,       \* the calls of run made on the Executor
    pending,    \* kernel: the upcalls queued for the process, not yet delivered
    shared,     \* the process state that upcalls mutate: how many have run
    seen,       \* the values of shared that the polls of the current sweep saw
    delivered,  \* the callback invocations made by the most recent IPC upcall
    checkpoint, \* a Yield polled by hand
    reports     \* what each poll of checkpoint returned, in order

guardVars == <<kallow, ksub, shares, subs, ret, io>>
execVars == <<task, done, all_done, i, pc, sweeps, polls, runs, pending, shared, seen>>
yieldVars == <<checkpoint, reports>>
vars == <<kallow, ksub, shares, subs, calls, ret, io, task, done, all_done, i, pc,
          sweeps, polls, runs, pending, shared, seen, delivered, checkpoint,
          reports>>

----------------------------------------------------------------------------
\* Bounds of the model

MaxHandles == 2
MaxTasks == 2
MaxCheckpoints == 2
MaxRuns == 2
MaxPolls == 3
MaxUpcalls == 2
\* no terminating task needs more sweeps than this
MaxSweeps == MaxCheckpoints + 2

----------------------------------------------------------------------------
\* The syscall ABI (libtock_platform, TRD 104)

YIELD == 0
SUBSCRIBE == 1
COMMAND == 2
ALLOW_RW == 3
ALLOW_RO == 4

FAILURE == 0
FAILURE_U32 == 1
FAILURE_2_U32 == 2
SUCCESS == 128
SUCCESS_2_U32 == 130

NODEVICE == 11
SIZE == 7

DRIVER_NUM == 65536

Drivers == {1, DRIVER_NUM}
Slots == {0, 1}
AllowClasses == {ALLOW_RO, ALLOW_RW}

\* the <<driver, slot>> pairs the caller addresses
Targets == {<<1, 0>>, <<DRIVER_NUM, 0>>, <<DRIVER_NUM, 1>>}

\* caller-owned byte slices: a non-empty one and an empty one
Bufs == {[ptr |-> 16, len |-> 4], [ptr |-> 32, len |-> 0]}

\* What the kernel may put in r0, r1 of an allow or subscribe result: the
\* documented success, the documented 2-register failure, and a failure of
\* another shape.
Responses ==
    {[r0 |-> SUCCESS_2_U32, r1 |-> 0]}
      \cup {[r0 |-> FAILURE_2_U32, r1 |-> e] : e \in {NODEVICE, SIZE}}
      \cup {[r0 |-> FAILURE_U32, r1 |-> NODEVICE]}

IsFailureVariant(r0) == r0 < 128

\* one issued syscall: its class and its four argument registers
Call(class, a0, a1, a2, a3) ==
    [class |-> class, a0 |-> a0, a1 |-> a1, a2 |-> a2, a3 |-> a3]

\* what an operation handed back: Ok(val), Err(val) or () for a drop; r0 is
\* the return variant the operation decoded into it and at the place in calls
\* of the syscall that returned it (0: no result was decoded)
Ret(op, kind, val, r0, at) ==
    [op |-> op, kind |-> kind, val |-> val, r0 |-> r0, at |-> at]

\* the arguments an operation was called with and the replies it read
Io(args, replies) == [args |-> args, replies |-> replies]

NoGrant == [ptr |-> 0, len |-> 0, owner |-> 0]
NoBinding == [fn |-> 0, data |-> 0, owner |-> 0]

\* The kernel's side of an allow: a zero-length allow always revokes, a
\* non-empty one replaces the grant of the slot when the kernel reports
\* success.  owner is the Share the grant was made through (0: none).
KernelAllow(tab, class, driver, slot, ptr, len, owner, resp) ==
    IF len = 0
      THEN [tab EXCEPT ![<<class, driver, slot>>] = NoGrant]
      ELSE IF IsFailureVariant(resp.r0)
        THEN tab
        ELSE [tab EXCEPT ![<<class, driver, slot>>] =
                            [ptr |-> ptr, len |-> len, owner |-> owner]]

\* The kernel's side of a subscribe: the null binding always unsubscribes, a
\* non-null one replaces the binding of the slot when the kernel reports
\* success.  owner is the SubscribeUpcall it was made through (0: none).
KernelSubscribe(tab, driver, slot, fn, data, owner, resp) ==
    IF fn = 0
      THEN [tab EXCEPT ![<<driver, slot>>] = NoBinding]
      ELSE IF IsFailureVariant(resp.r0)
        THEN tab
        ELSE [tab EXCEPT ![<<driver, slot>>] =
                            [fn |-> fn, data |-> data, owner |-> owner]]

----------------------------------------------------------------------------
\* Handles.  A Share or SubscribeUpcall value is identified by the order of
\* its construction.  Beside the fields of the struct, acq records the syscall
\* that constructed it and rev the list of syscalls its drop has issued.

NoCall == [class |-> 0, a0 |-> 0, a1 |-> 0, a2 |-> 0, a3 |-> 0]
NoShare == [st |-> "unused", class |-> 0, driver_num |-> 0, buffer_num |-> 0,
            acq |-> NoCall, rev |-> <<>>]
NoSub == [st |-> "unused", driver_num |-> 0, subscribe_num |-> 0,
          acq |-> NoCall, rev |-> <<>>]

Used(pool) == {h \in DOMAIN pool : pool[h].st # "unused"}
Live(pool) == {h \in DOMAIN pool : pool[h].st = "live"}

\* room for one more value within the bound of the model
Room == Cardinality(Used(shares)) + Cardinality(Used(subs)) < MaxHandles

FreeHandle(pool) == Cardinality(Used(pool)) + 1

----------------------------------------------------------------------------
\* Share (scoped allow)

\* (variant) a Share is constructed before the result is examined
ShareNew_ShareOnFailure(class, driver_num, buffer_num, data, resp) ==
    /\ Room
    /\ LET h == FreeHandle(shares)
           c == Call(class, driver_num, buffer_num, data.ptr, data.len)
           rv == resp.r0
       IN /\ calls' = <<c>>
          /\ io' = Io([class |-> class, driver_num |-> driver_num,
                       buffer_num |-> buffer_num, data |-> data], <<resp>>)
          /\ kallow' = KernelAllow(kallow, class, driver_num, buffer_num,
                                   data.ptr, data.len, h, resp)
          /\ ret' = IF rv = FAILURE_2_U32
                      THEN Ret("Share::new", "Err", resp.r1, rv, 1)
                      ELSE Ret("Share::new", "Ok", h, rv, 1)
          /\ shares' = [shares EXCEPT ![h] =
                          [st |-> "live", class |-> class,
                           driver_num |-> driver_num,
                           buffer_num |-> buffer_num,
                           acq |-> c, rev |-> <<>>]]
    /\ UNCHANGED <<ksub, subs, execVars, yieldVars, delivered>>

\* Share::new: one allow syscall; Err(r1) on the 2-register failure, a Share
\* otherwise.
ShareNew(class, driver_num, buffer_num, data, resp) ==
    /\ Room
    /\ LET h == FreeHandle(shares)
           c == Call(class, driver_num, buffer_num, data.ptr, data.len)
           rv == resp.r0
       IN /\ calls' = <<c>>
          /\ io' = Io([class |-> class, driver_num |-> driver_num,
                       buffer_num |-> buffer_num, data |-> data], <<resp>>)
          /\ IF rv = FAILURE_2_U32
               THEN /\ kallow' = KernelAllow(kallow, class, driver_num, buffer_num,
                                             data.ptr, data.len, 0, resp)
                    /\ ret' = Ret("Share::new", "Err", resp.r1, rv, 1)
                    /\ shares' = shares
               ELSE /\ kallow' = KernelAllow(kallow, class, driver_num, buffer_num,
                                             data.ptr, data.len, h, resp)
                    /\ ret' = Ret("Share::new", "Ok", h, rv, 1)
                    /\ shares' = [shares EXCEPT ![h] =
                                    [st |-> "live", class |-> class,
                                     driver_num |-> driver_num,
                                     buffer_num |-> buffer_num,
                                     acq |-> c, rev |-> <<>>]]
    /\ UNCHANGED <<ksub, subs, execVars, yieldVars, delivered>>

\* (variant) the drop revokes through the read-write class whatever SHARE_TYPE is
ShareDropCall_FixedClass(sh) == Call(ALLOW_RW, sh.driver_num, sh.buffer_num, 0, 0)

\* The syscall of Drop for Share: the zero-slice allow to the Share's own
\* class, driver and buffer number.
ShareDropCall(sh) == Call(sh.class, sh.driver_num, sh.buffer_num, 0, 0)

\* (variant) the drop issues no syscall
ShareDrop_NoRevoke(h, resp) ==
    /\ shares[h].st = "live"
    /\ calls' = <<>>
    /\ io' = Io([h |-> h], <<>>)
    /\ shares' = [shares EXCEPT ![h].st = "released"]
    /\ ret' = Ret("drop Share", "unit", h, 0, 0)
    /\ UNCHANGED <<kallow, ksub, subs, execVars, yieldVars, delivered>>

\* Drop for Share: issues ShareDropCall and ignores its result.  A value is
\* dropped once.
ShareDrop(h, resp) ==
    /\ shares[h].st = "live"
    /\ LET c == ShareDropCall(shares[h])
       IN /\ calls' = <<c>>
          /\ kallow' = KernelAllow(kallow, c.class, c.a0, c.a1, c.a2, c.a3, 0, resp)
          /\ shares' = [shares EXCEPT ![h].st = "released",
                                      ![h].rev = Append(@, c)]
    /\ ret' = Ret("drop Share", "unit", h, 0, 0)
    /\ io' = Io([h |-> h], <<>>)
    /\ UNCHANGED <<ksub, subs, execVars, yieldVars, delivered>>

----------------------------------------------------------------------------
\* SubscribeUpcall (scoped subscribe)

\* address of kernel_upcall::<S, U>, the trampoline of SubscribeUpcall::new
KUP_FUNC == 4096

\* callback objects of the caller, by address
Upcalls == {64}

\* SubscribeUpcall::new: one subscribe syscall binding the trampoline and the
\* callback's address; Err(r1) on the 2-register failure, a SubscribeUpcall
\* otherwise.
SubscribeNew(driver_num, subscribe_num, upcall, resp) ==
    /\ Room
    /\ LET h == FreeHandle(subs)
           c == Call(SUBSCRIBE, driver_num, subscribe_num, KUP_FUNC, upcall)
           rv == resp.r0
       IN /\ calls' = <<c>>
          /\ io' = Io([driver_num |-> driver_num, subscribe_num |-> subscribe_num,
                       upcall |-> upcall], <<resp>>)
          /\ IF rv = FAILURE_2_U32
               THEN /\ ksub' = KernelSubscribe(ksub, driver_num, subscribe_num,
                                               KUP_FUNC, upcall, 0, resp)
                    /\ ret' = Ret("SubscribeUpcall::new", "Err", resp.r1, rv, 1)
                    /\ subs' = subs
               ELSE /\ ksub' = KernelSubscribe(ksub, driver_num, subscribe_num,
                                               KUP_FUNC, upcall, h, resp)
                    /\ ret' = Ret("SubscribeUpcall::new", "Ok", h, rv, 1)
                    /\ subs' = [subs EXCEPT ![h] =
                                    [st |-> "live", driver_num |-> driver_num,
                                     subscribe_num |-> subscribe_num,
                                     acq |-> c, rev |-> <<>>]]
    /\ UNCHANGED <<kallow, shares, execVars, yieldVars, delivered>>

\* (variant) the drop passes the null data pointer but keeps the trampoline
SubscribeDropCall_KeepsFn(su) ==
    Call(SUBSCRIBE, su.driver_num, su.subscribe_num, KUP_FUNC, 0)

\* The syscall of Drop for SubscribeUpcall: the null binding to its own
\* driver and subscribe number.
SubscribeDropCall(su) == Call(SUBSCRIBE, su.driver_num, su.subscribe_num, 0, 0)

\* Drop for SubscribeUpcall: issues SubscribeDropCall and ignores its result.
SubscribeDrop(h, resp) ==
    /\ subs[h].st = "live"
    /\ LET c == SubscribeDropCall(subs[h])
       IN /\ calls' = <<c>>
          /\ ksub' = KernelSubscribe(ksub, c.a0, c.a1, c.a2, c.a3, 0, resp)
          /\ subs' = [subs EXCEPT ![h].st = "released",
                                  ![h].rev = Append(@, c)]
    /\ ret' = Ret("drop SubscribeUpcall", "unit", h, 0, 0)
    /\ io' = Io([h |-> h], <<>>)
    /\ UNCHANGED <<kallow, shares, execVars, yieldVars, delivered>>

----------------------------------------------------------------------------
\* Ipc

\* command ids and allow slot of the IPC driver
EXISTS == 0
DISCOVER == 1
NOTIFY_SERVICE == 2
NOTIFY_CLIENT == 3
SEARCH == 0

\* address of kernel_upcall::<S, CB>, the trampoline of Ipc::register
IPC_KUP_FUNC == 8192

\* IpcCallback objects of the caller, by address
Callbacks == {96, 128}

\* process-static buffers handed to Ipc::share
StaticBufs == {[ptr |-> 256, len |-> 8], [ptr |-> 288, len |-> 0]}

\* package names handed to Ipc::discover ("shell")
Names == {[ptr |-> 512, len |-> 5]}

\* What the kernel may put in r0, r1 of a command result.
SUCCESS_U32 == 129
CommandResponses ==
    {[r0 |-> SUCCESS_U32, r1 |-> 7], [r0 |-> FAILURE_2_U32, r1 |-> NODEVICE]}

\* S::allow_ro: Err(r1) on the 2-register failure of its allow syscall
AllowRoFails(resp) == resp.r0 = FAILURE_2_U32

\* the zero-length allow that share::scope issues for its AllowRo when the
\* scope is left, on every path
UnallowRoCall(driver, buffer) == Call(ALLOW_RO, driver, buffer, 0, 0)

\* CommandReturn::to_result
CommandToResult(op, resp, at) ==
    IF resp.r0 = FAILURE_2_U32
      THEN Ret(op, "Err", resp.r1, resp.r0, at)
      ELSE Ret(op, "Ok", resp.r1, resp.r0, at)

\* (variant) the share scope is closed before the command is issued
IpcDiscover_ScopeEndsEarly(pkg_name, aresp, cresp) ==
    LET allow == Call(ALLOW_RO, DRIVER_NUM, SEARCH, pkg_name.ptr, pkg_name.len)
        command == Call(COMMAND, DRIVER_NUM, DISCOVER, 0, 0)
        unallow == UnallowRoCall(DRIVER_NUM, SEARCH)
        granted == KernelAllow(kallow, ALLOW_RO, DRIVER_NUM, SEARCH,
                               pkg_name.ptr, pkg_name.len, 0, aresp)
    IN /\ IF AllowRoFails(aresp)
            THEN /\ calls' = <<allow, unallow>>
                 /\ io' = Io([pkg_name |-> pkg_name], <<aresp>>)
                 /\ ret' = Ret("Ipc::discover", "Err", aresp.r1, aresp.r0, 1)
            ELSE /\ calls' = <<allow, unallow, command>>
                 /\ io' = Io([pkg_name |-> pkg_name], <<aresp, cresp>>)
                 /\ ret' = CommandToResult("Ipc::discover", cresp, 3)
       /\ kallow' = KernelAllow(granted, ALLOW_RO, DRIVER_NUM, SEARCH, 0, 0, 0, aresp)
       /\ UNCHANGED <<ksub, shares, subs, execVars, yieldVars, delivered>>

\* (variant) the result of the allow is returned in place of the command's
IpcDiscover_ReturnsAllowResult(pkg_name, aresp, cresp) ==
    LET allow == Call(ALLOW_RO, DRIVER_NUM, SEARCH, pkg_name.ptr, pkg_name.len)
        command == Call(COMMAND, DRIVER_NUM, DISCOVER, 0, 0)
        unallow == UnallowRoCall(DRIVER_NUM, SEARCH)
        granted == KernelAllow(kallow, ALLOW_RO, DRIVER_NUM, SEARCH,
                               pkg_name.ptr, pkg_name.len, 0, aresp)
    IN /\ IF AllowRoFails(aresp)
            THEN /\ calls' = <<allow, unallow>>
                 /\ io' = Io([pkg_name |-> pkg_name], <<aresp>>)
                 /\ ret' = Ret("Ipc::discover", "Err", aresp.r1, aresp.r0, 1)
            ELSE /\ calls' = <<allow, command, unallow>>
                 /\ io' = Io([pkg_name |-> pkg_name], <<aresp, cresp>>)
                 /\ ret' = CommandToResult("Ipc::discover", aresp, 2)
       /\ kallow' = KernelAllow(granted, ALLOW_RO, DRIVER_NUM, SEARCH, 0, 0, 0, aresp)
       /\ UNCHANGED <<ksub, shares, subs, execVars, yieldVars, delivered>>

\* Ipc::discover: inside a share scope, allow the name read-only, return at
\* once if that fails (the ? operator), otherwise issue the DISCOVER command;
\* leaving the scope revokes the allow.
IpcDiscover(pkg_name, aresp, cresp) ==
    LET allow == Call(ALLOW_RO, DRIVER_NUM, SEARCH, pkg_name.ptr, pkg_name.len)
        command == Call(COMMAND, DRIVER_NUM, DISCOVER, 0, 0)
        unallow == UnallowRoCall(DRIVER_NUM, SEARCH)
        granted == KernelAllow(kallow, ALLOW_RO, DRIVER_NUM, SEARCH,
                               pkg_name.ptr, pkg_name.len, 0, aresp)
    IN /\ IF AllowRoFails(aresp)
            THEN /\ calls' = <<allow, unallow>>
                 /\ io' = Io([pkg_name |-> pkg_name], <<aresp>>)
                 /\ ret' = Ret("Ipc::discover", "Err", aresp.r1, aresp.r0, 1)
            ELSE /\ calls' = <<allow, command, unallow>>
                 /\ io' = Io([pkg_name |-> pkg_name], <<aresp, cresp>>)
                 /\ ret' = CommandToResult("Ipc::discover", cresp, 2)
       /\ kallow' = KernelAllow(granted, ALLOW_RO, DRIVER_NUM, SEARCH, 0, 0, 0, aresp)
       /\ UNCHANGED <<ksub, shares, subs, execVars, yieldVars, delivered>>

\* (variant) the binding is released when register returns
IpcRegister_ReleasedOnReturn(svc_id, cb, resp) ==
    LET rv == resp.r0
        bound == KernelSubscribe(ksub, DRIVER_NUM, svc_id, IPC_KUP_FUNC, cb, 0, resp)
    IN /\ calls' = <<Call(SUBSCRIBE, DRIVER_NUM, svc_id, IPC_KUP_FUNC, cb),
                     Call(SUBSCRIBE, DRIVER_NUM, svc_id, 0, 0)>>
       /\ io' = Io([svc_id |-> svc_id, cb |-> cb], <<resp>>)
       /\ ksub' = KernelSubscribe(bound, DRIVER_NUM, svc_id, 0, 0, 0, resp)
       /\ ret' = IF rv = FAILURE_2_U32
                   THEN Ret("Ipc::register", "Err", resp.r1, rv, 1)
                   ELSE Ret("Ipc::register", "Ok", 0, rv, 1)
       /\ UNCHANGED <<kallow, shares, subs, execVars, yieldVars, delivered>>

\* Ipc::register: one subscribe syscall to slot svc_id of the IPC driver,
\* binding the trampoline and the callback's address; Err(r1) on the
\* 2-register failure, Ok(()) otherwise.  Nothing is released on return.
IpcRegister(svc_id, cb, resp) ==
    LET rv == resp.r0
    IN /\ calls' = <<Call(SUBSCRIBE, DRIVER_NUM, svc_id, IPC_KUP_FUNC, cb)>>
       /\ io' = Io([svc_id |-> svc_id, cb |-> cb], <<resp>>)
       /\ ksub' = KernelSubscribe(ksub, DRIVER_NUM, svc_id, IPC_KUP_FUNC, cb, 0, resp)
       /\ ret' = IF rv = FAILURE_2_U32
                   THEN Ret("Ipc::register", "Err", resp.r1, rv, 1)
                   ELSE Ret("Ipc::register", "Ok", 0, rv, 1)
       /\ UNCHANGED <<kallow, shares, subs, execVars, yieldVars, delivered>>

\* (variant) the buffer is allowed to the fixed slot SEARCH
IpcShare_FixedSlot(svc_id, buf, resp) ==
    LET rv == resp.r0
    IN /\ calls' = <<Call(ALLOW_RW, DRIVER_NUM, SEARCH, buf.ptr, buf.len)>>
       /\ io' = Io([svc_id |-> svc_id, buf |-> buf], <<resp>>)
       /\ kallow' = KernelAllow(kallow, ALLOW_RW, DRIVER_NUM, SEARCH,
                                buf.ptr, buf.len, 0, resp)
       /\ ret' = IF rv = FAILURE_2_U32
                   THEN Ret("Ipc::share", "Err", resp.r1, rv, 1)
                   ELSE Ret("Ipc::share", "Ok", 0, rv, 1)
       /\ UNCHANGED <<ksub, shares, subs, execVars, yieldVars, delivered>>

\* Ipc::share: one allow-read-write syscall to slot svc_id of the IPC driver;
\* Err(r1) on the 2-register failure, Ok(()) otherwise.  Nothing is released
\* on return.
IpcShare(svc_id, buf, resp) ==
    LET rv == resp.r0
    IN /\ calls' = <<Call(ALLOW_RW, DRIVER_NUM, svc_id, buf.ptr, buf.len)>>
       /\ io' = Io([svc_id |-> svc_id, buf |-> buf], <<resp>>)
       /\ kallow' = KernelAllow(kallow, ALLOW_RW, DRIVER_NUM, svc_id,
                                buf.ptr, buf.len, 0, resp)
       /\ ret' = IF rv = FAILURE_2_U32
                   THEN Ret("Ipc::share", "Err", resp.r1, rv, 1)
                   ELSE Ret("Ipc::share", "Ok", 0, rv, 1)
       /\ UNCHANGED <<ksub, shares, subs, execVars, yieldVars, delivered>>

\* static mut EMPTY_BUF: [u8; 0]
EMPTY_BUF == [ptr |-> 768, len |-> 0]

\* process ids the kernel names as the peer of a notification
Peers == {0, 1}

\* the (len, ptr) pairs the kernel passes to the upcall: the buffer the peer
\* shares, a shared buffer of no bytes, no buffer, and a null pointer that
\* comes with a length
UpcallBufs == {[ptr |-> 1024, len |-> 8], [ptr |-> 1024, len |-> 0],
               [ptr |-> 0, len |-> 0], [ptr |-> 0, len |-> 8]}

\* (variant) the view is len bytes long whether or not ptr is null
IpcKernelUpcall_LenOfNull(target, len, ptr, cbptr) ==
    <<[cb |-> cbptr, pid |-> target,
       buf |-> [ptr |-> IF ptr # 0 THEN ptr ELSE EMPTY_BUF.ptr, len |-> len]]>>

\* kernel_upcall of Ipc::register: the calls it makes on callback objects.
\* The byte view is len bytes at ptr, or EMPTY_BUF if ptr is null.
IpcKernelUpcall(target, len, ptr, cbptr) ==
    LET data == IF ptr # 0 THEN [ptr |-> ptr, len |-> len] ELSE EMPTY_BUF
    IN <<[cb |-> cbptr, pid |-> target, buf |-> data]>>

\* The kernel invokes the upcall bound to slot id of the IPC driver with the
\* arguments of its choice and the data pointer of the binding.
IpcUpcall(id, target, b) ==
    LET bound == ksub[<<DRIVER_NUM, id>>]
    IN /\ bound.fn = IPC_KUP_FUNC
       /\ delivered' = IpcKernelUpcall(target, b.len, b.ptr, bound.data)
       /\ calls' = <<>>
       /\ io' = Io([target |-> target, len |-> b.len, ptr |-> b.ptr,
                    cbptr |-> bound.data], <<>>)
       /\ ret' = Ret("kernel_upcall", "unit", 0, 0, 0)
       /\ UNCHANGED <<kallow, ksub, shares, subs, execVars, yieldVars>>

\* What the kernel may put in r0, r1 of the result of a command that
\* carries no value.
UnitCommandResponses ==
    {[r0 |-> SUCCESS, r1 |-> 0]}
      \cup {[r0 |-> FAILURE_2_U32, r1 |-> e] : e \in {NODEVICE, SIZE}}

\* What the kernel may answer to the EXISTS probe.
ExistsResponses == {[r0 |-> SUCCESS, r1 |-> 0], [r0 |-> FAILURE, r1 |-> NODEVICE]}

\* CommandReturn::is_success
IsSuccess(resp) == resp.r0 = SUCCESS

\* Ipc::exists: one EXISTS command with zero arguments; true iff it succeeded.
IpcExists(resp) ==
    /\ calls' = <<Call(COMMAND, DRIVER_NUM, EXISTS, 0, 0)>>
    /\ io' = Io(<<>>, <<resp>>)
    /\ ret' = Ret("Ipc::exists", "bool", IF IsSuccess(resp) THEN 1 ELSE 0, resp.r0, 1)
    /\ UNCHANGED <<kallow, ksub, shares, subs, execVars, yieldVars, delivered>>

\* Ipc::notify_service: one NOTIFY_SERVICE command carrying svc_id, and its
\* decoded result.
IpcNotifyService(svc_id, resp) ==
    /\ calls' = <<Call(COMMAND, DRIVER_NUM, NOTIFY_SERVICE, svc_id, 0)>>
    /\ io' = Io([svc_id |-> svc_id], <<resp>>)
    /\ ret' = CommandToResult("Ipc::notify_service", resp, 1)
    /\ UNCHANGED <<kallow, ksub, shares, subs, execVars, yieldVars, delivered>>

\* Ipc::notify_client: one NOTIFY_CLIENT command carrying svc_id, and its
\* decoded result.
IpcNotifyClient(svc_id, resp) ==
    /\ calls' = <<Call(COMMAND, DRIVER_NUM, NOTIFY_CLIENT, svc_id, 0)>>
    /\ io' = Io([svc_id |-> svc_id], <<resp>>)
    /\ ret' = CommandToResult("Ipc::notify_client", resp, 1)
    /\ UNCHANGED <<kallow, ksub, shares, subs, execVars, yieldVars, delivered>>

----------------------------------------------------------------------------
\* Yield (the cooperative checkpoint)

\* Yield::now
YieldNow == [ready |-> FALSE]

\* (variant) poll never sets the flag
YieldPoll_NeverReady(y) == [yield |-> y, res |-> "Pending"]

\* Future::poll for Yield: Pending and ready := true the first time, Ready
\* from then on.  No syscall.
YieldPoll(y) ==
    IF y.ready
      THEN [yield |-> y, res |-> "Ready"]
      ELSE [yield |-> [y EXCEPT !.ready = TRUE], res |-> "Pending"]

\* A poll of a Yield held by the caller.
PollCheckpoint ==
    /\ Len(reports) < MaxPolls
    /\ LET p == YieldPoll(checkpoint)
       IN /\ checkpoint' = p.yield
          /\ reports' = Append(reports, p.res)
    /\ UNCHANGED <<guardVars, calls, execVars, delivered>>

----------------------------------------------------------------------------
\* Executor

\* A task handed to the Executor: an async block that awaits n checkpoints
\* (Yield::now().await) one after the other and then completes, or, with
\* forever, one that awaits checkpoints without end.  left counts the
\* checkpoints not yet passed, yield is the Yield being awaited.
Task(n, forever) == [n |-> n, forever |-> forever, left |-> n, yield |-> YieldNow]

TaskKinds == {Task(n, FALSE) : n \in 0..MaxCheckpoints} \cup {Task(0, TRUE)}

\* One poll of a task: run up to the next checkpoint that reports Pending, or
\* to the end.
RECURSIVE TaskPoll(_)
TaskPoll(t) ==
    IF ~t.forever /\ t.left = 0
      THEN [task |-> t, res |-> "Ready"]
      ELSE LET y == YieldPoll(t.yield)
           IN IF y.res = "Pending"
                THEN [task |-> [t EXCEPT !.yield = y.yield], res |-> "Pending"]
                ELSE TaskPoll([t EXCEPT !.left = IF t.forever THEN @ ELSE @ - 1,
                                        !.yield = YieldNow])

\* the const generic TASKS
TASKS == Len(task)

\* S::yield_no_wait
YieldNoWaitCall == Call(YIELD, 0, 0, 0, 0)

\* The kernel's side of yield-no-wait: if an upcall is queued, one is run
\* before the syscall returns, and it mutates the shared state.
KernelYield ==
    IF pending > 0
      THEN pending' = pending - 1 /\ shared' = shared + 1
      ELSE UNCHANGED <<pending, shared>>

\* An event in the kernel queues an upcall for the process.  This can happen
\* at any moment; the upcall runs when the process next yields.
UpcallQueued ==
    /\ pending + shared < MaxUpcalls
    /\ pending' = pending + 1
    /\ UNCHANGED <<guardVars, calls, task, done, all_done, i, pc, sweeps, polls,
                   runs, shared, seen, yieldVars, delivered>>

\* A call of Executor::run: let mut all_done = 0.
RunCall ==
    /\ pc \in {"new", "returned"}
    /\ runs < MaxRuns
    /\ runs' = runs + 1
    /\ all_done' = 0
    /\ sweeps' = 0
    /\ calls' = <<>>
    /\ pc' = "while"
    /\ UNCHANGED <<guardVars, task, done, i, polls, pending, shared, seen,
                   yieldVars, delivered>>

\* (variant) all_done is not reset at the head of a sweep
WhileTest_NoReset ==
    /\ pc = "while"
    /\ IF all_done # TASKS
         THEN /\ sweeps < MaxSweeps
              /\ i' = 1
              /\ sweeps' = sweeps + 1
              /\ pc' = "for"
              /\ seen' = {}
              /\ UNCHANGED all_done
         ELSE /\ pc' = "returned"
              /\ UNCHANGED <<all_done, i, sweeps, seen>>
    /\ UNCHANGED <<guardVars, calls, task, done, polls, runs, pending, shared,
                   yieldVars, delivered>>

\* (variant) the loop tests its condition after the body: the first sweep is
\* made without the test
WhileTest_TestAfterBody ==
    /\ pc = "while"
    /\ IF sweeps = 0 \/ all_done # TASKS
         THEN /\ sweeps < MaxSweeps
              /\ all_done' = 0
              /\ i' = 1
              /\ sweeps' = sweeps + 1
              /\ pc' = IF TASKS = 0 THEN "yield" ELSE "for"
              /\ seen' = {}
         ELSE /\ pc' = "returned"
              /\ UNCHANGED <<all_done, i, sweeps, seen>>
    /\ UNCHANGED <<guardVars, calls, task, done, polls, runs, pending, shared,
                   yieldVars, delivered>>

\* while all_done != TASKS { all_done = 0; for i in 0..TASKS ...: the test of
\* the loop, and either the start of a sweep or the return of run.
WhileTest ==
    /\ pc = "while"
    /\ IF all_done # TASKS
         THEN /\ sweeps < MaxSweeps
              /\ all_done' = 0
              /\ i' = 1
              /\ sweeps' = sweeps + 1
              /\ pc' = "for"
              /\ seen' = {}
         ELSE /\ pc' = "returned"
              /\ UNCHANGED <<all_done, i, sweeps, seen>>
    /\ UNCHANGED <<guardVars, calls, task, done, polls, runs, pending, shared,
                   yieldVars, delivered>>

\* (variant) a task that reports Ready is marked done but not counted
ForStep_ReadyNotCounted ==
    /\ pc = "for"
    /\ IF done[i]
         THEN /\ all_done' = all_done + 1
              /\ UNCHANGED <<task, done, polls>>
         ELSE LET p == TaskPoll(task[i])
              IN /\ task' = [task EXCEPT ![i] = p.task]
                 /\ polls' = [polls EXCEPT ![i] = @ + 1]
                 /\ IF p.res = "Ready"
                      THEN /\ done' = [done EXCEPT ![i] = TRUE]
                           /\ UNCHANGED all_done
                      ELSE UNCHANGED <<done, all_done>>
    /\ i' = i + 1
    /\ pc' = IF i = TASKS THEN "yield" ELSE "for"
    /\ seen' = IF done[i] THEN seen ELSE seen \cup {shared}
    /\ UNCHANGED <<guardVars, calls, sweeps, runs, pending, shared, yieldVars, delivered>>

\* (variant) a task that reports Pending is counted as finished
ForStep_CountsPending ==
    /\ pc = "for"
    /\ IF done[i]
         THEN /\ all_done' = all_done + 1
              /\ UNCHANGED <<task, done, polls>>
         ELSE LET p == TaskPoll(task[i])
              IN /\ task' = [task EXCEPT ![i] = p.task]
                 /\ polls' = [polls EXCEPT ![i] = @ + 1]
                 /\ all_done' = all_done + 1
                 /\ IF p.res = "Ready"
                      THEN done' = [done EXCEPT ![i] = TRUE]
                      ELSE UNCHANGED done
    /\ i' = i + 1
    /\ pc' = IF i = TASKS THEN "yield" ELSE "for"
    /\ seen' = IF done[i] THEN seen ELSE seen \cup {shared}
    /\ UNCHANGED <<guardVars, calls, sweeps, runs, pending, shared, yieldVars, delivered>>

\* (variant) the Executor yields after every poll instead of after the sweep
ForStep_YieldsAfterPoll ==
    /\ pc = "for"
    /\ IF done[i]
         THEN /\ all_done' = all_done + 1
              /\ UNCHANGED <<task, done, polls, calls, pending, shared>>
         ELSE LET p == TaskPoll(task[i])
              IN /\ task' = [task EXCEPT ![i] = p.task]
                 /\ polls' = [polls EXCEPT ![i] = @ + 1]
                 /\ IF p.res = "Ready"
                      THEN /\ done' = [done EXCEPT ![i] = TRUE]
                           /\ all_done' = all_done + 1
                      ELSE UNCHANGED <<done, all_done>>
                 /\ calls' = Append(calls, YieldNoWaitCall)
                 /\ KernelYield
    /\ i' = i + 1
    /\ pc' = IF i = TASKS THEN "yield" ELSE "for"
    /\ seen' = IF done[i] THEN seen ELSE seen \cup {shared}
    /\ UNCHANGED <<guardVars, sweeps, runs, yieldVars, delivered>>

\* (variant) a task that reports Pending is polled a second time at once
ForStep_PollsPendingAgain ==
    /\ pc = "for"
    /\ IF done[i]
         THEN /\ all_done' = all_done + 1
              /\ UNCHANGED <<task, done, polls>>
         ELSE LET first == TaskPoll(task[i])
                  p == IF first.res = "Pending" THEN TaskPoll(first.task) ELSE first
              IN /\ task' = [task EXCEPT ![i] = p.task]
                 /\ polls' = [polls EXCEPT ![i] =
                                 IF first.res = "Pending" THEN @ + 2 ELSE @ + 1]
                 /\ IF p.res = "Ready"
                      THEN /\ done' = [done EXCEPT ![i] = TRUE]
                           /\ all_done' = all_done + 1
                      ELSE UNCHANGED <<done, all_done>>
    /\ i' = i + 1
    /\ pc' = IF i = TASKS THEN "yield" ELSE "for"
    /\ seen' = IF done[i] THEN seen ELSE seen \cup {shared}
    /\ UNCHANGED <<guardVars, calls, sweeps, runs, pending, shared, yieldVars, delivered>>

\* (variant) a task is polled whether or not it is marked done
ForStep_IgnoresDone ==
    /\ pc = "for"
    /\ LET p == TaskPoll(task[i])
       IN /\ task' = [task EXCEPT ![i] = p.task]
          /\ polls' = [polls EXCEPT ![i] = @ + 1]
          /\ IF p.res = "Ready"
               THEN /\ done' = [done EXCEPT ![i] = TRUE]
                    /\ all_done' = all_done + 1
               ELSE UNCHANGED <<done, all_done>>
    /\ i' = i + 1
    /\ pc' = IF i = TASKS THEN "yield" ELSE "for"
    /\ seen' = IF done[i] THEN seen ELSE seen \cup {shared}
    /\ UNCHANGED <<guardVars, calls, sweeps, runs, pending, shared, yieldVars, delivered>>

\* One iteration of for i in 0..TASKS: a task marked done is counted, any
\* other is polled once and, if it reports Ready, marked done and counted.
ForStep ==
    /\ pc = "for"
    /\ IF done[i]
         THEN /\ all_done' = all_done + 1
              /\ UNCHANGED <<task, done, polls>>
         ELSE LET p == TaskPoll(task[i])
              IN /\ task' = [task EXCEPT ![i] = p.task]
                 /\ polls' = [polls EXCEPT ![i] = @ + 1]
                 /\ IF p.res = "Ready"
                      THEN /\ done' = [done EXCEPT ![i] = TRUE]
                           /\ all_done' = all_done + 1
                      ELSE UNCHANGED <<done, all_done>>
    /\ i' = i + 1
    /\ pc' = IF i = TASKS THEN "yield" ELSE "for"
    /\ seen' = IF done[i] THEN seen ELSE seen \cup {shared}
    /\ UNCHANGED <<guardVars, calls, sweeps, runs, pending, shared, yieldVars, delivered>>

\* (variant) the yield is skipped after the sweep that finds every task done
YieldNoWait_SkippedWhenDone ==
    /\ pc = "yield"
    /\ IF all_done = TASKS
         THEN UNCHANGED <<calls, pending, shared>>
         ELSE calls' = Append(calls, YieldNoWaitCall) /\ KernelYield
    /\ pc' = "while"
    /\ UNCHANGED <<guardVars, task, done, all_done, i, sweeps, polls, runs, seen,
                   yieldVars, delivered>>

\* S::yield_no_wait() after the for loop, then back to the test of the loop.
YieldNoWait ==
    /\ pc = "yield"
    /\ calls' = Append(calls, YieldNoWaitCall)
    /\ KernelYield
    /\ pc' = "while"
    /\ UNCHANGED <<guardVars, task, done, all_done, i, sweeps, polls, runs, seen,
                   yieldVars, delivered>>

----------------------------------------------------------------------------
\* Initial states

InitKernel ==
    /\ kallow = [k \in AllowClasses \X Drivers \X Slots |-> NoGrant]
    /\ ksub = [k \in Drivers \X Slots |-> NoBinding]
    /\ shares = [h \in 1..MaxHandles |-> NoShare]
    /\ subs = [h \in 1..MaxHandles |-> NoSub]
    /\ calls = <<>>
    /\ ret = Ret("none", "unit", 0, 0, 0)
    /\ io = Io(<<>>, <<>>)
    /\ delivered = <<>>

\* Executor::new(task): done = [false; TASKS]
ExecutorNew(t) ==
    /\ task = t
    /\ done = [k \in 1..Len(t) |-> FALSE]
    /\ all_done = 0
    /\ i = 0
    /\ pc = "new"
    /\ sweeps = 0
    /\ polls = [k \in 1..Len(t) |-> 0]
    /\ runs = 0
    /\ pending = 0
    /\ shared = 0
    /\ seen = {}

InitYield ==
    /\ checkpoint = YieldNow
    /\ reports = <<>>

\* a process that uses the guards and Ipc and has no Executor
Init == InitKernel /\ ExecutorNew(<<>>) /\ InitYield

\* a process that runs an Executor over any of the task arrays
InitExec ==
    /\ InitKernel
    /\ \E n \in 0..MaxTasks : \E t \in [1..n -> TaskKinds] : ExecutorNew(t)
    /\ InitYield

\* the scoped guards of platform/src/async_helpers.rs
Next ==
    \/ \E c \in AllowClasses, t \in Targets, b \in Bufs, r \in Responses :
            ShareNew(c, t[1], t[2], b, r)
    \/ \E h \in 1..MaxHandles, r \in Responses : ShareDrop(h, r)
    \/ \E t \in Targets, u \in Upcalls, r \in Responses :
            SubscribeNew(t[1], t[2], u, r)
    \/ \E h \in 1..MaxHandles, r \in Responses : SubscribeDrop(h, r)

Spec == Init /\ [][Next]_vars

----------------------------------------------------------------------------
\* Properties of the scoped guards (under Spec)

\* the revoke that belongs to an acquire: same class, driver and slot, pointer
\* 0 and length 0
RevokeOf(acq) == [acq EXCEPT !.a2 = 0, !.a3 = 0]

\* C1: a released Share has issued exactly one revoke syscall, of the allow
\* class, driver and slot of the allow that constructed it, with pointer 0 and
\* length 0; a live Share has issued none.
C1_ShareRevokedExactlyOnce ==
    \A h \in 1..MaxHandles :
        /\ shares[h].st = "released" => shares[h].rev = <<RevokeOf(shares[h].acq)>>
        /\ shares[h].st = "live" => shares[h].rev = <<>>

C1_Witness ==
    \E h \in 1..MaxHandles :
        /\ shares[h].st = "released"
        /\ shares[h].acq.class = ALLOW_RO
        /\ shares[h].acq.a3 > 0
        /\ Len(shares[h].rev) = 1

\* C2: a released SubscribeUpcall has issued exactly one null-binding
\* subscribe (function pointer 0, data pointer 0) to the driver and slot of
\* the subscribe that constructed it; a live one has issued none.
C2_SubscriptionUnsubscribedExactlyOnce ==
    \A h \in 1..MaxHandles :
        /\ subs[h].st = "released" => subs[h].rev = <<RevokeOf(subs[h].acq)>>
        /\ subs[h].st = "live" => subs[h].rev = <<>>

C2_Witness ==
    \E h \in 1..MaxHandles :
        /\ subs[h].st = "released"
        /\ subs[h].acq.a2 = KUP_FUNC
        /\ Len(subs[h].rev) = 1

\* C3: a non-empty grant or non-null binding that the kernel holds and that
\* was established through a Share or SubscribeUpcall belongs to a value that
\* is still live.
C3_KernelHoldsOnlyLive ==
    /\ \A k \in DOMAIN kallow :
          (kallow[k].len > 0 /\ kallow[k].owner # 0) => shares[kallow[k].owner].st = "live"
    /\ \A k \in DOMAIN ksub :
          (ksub[k].fn # 0 /\ ksub[k].owner # 0) => subs[ksub[k].owner].st = "live"

\* a Share whose grant the kernel had accepted has been released, while the
\* kernel still holds a binding of a live SubscribeUpcall
C3_Witness ==
    /\ \E h \in 1..MaxHandles :
          /\ shares[h].st = "released"
          /\ shares[h].acq.a3 > 0
    /\ \E k \in DOMAIN ksub : ksub[k].fn # 0 /\ ksub[k].owner # 0

\* C4 (as claimed): an operation whose syscall returned a failure variant other
\* than the 2-register failure ends in an abort, never in Ok or Err.
C4_OtherFailureAborts ==
    (/\ ret.op \in {"Share::new", "SubscribeUpcall::new", "Ipc::register", "Ipc::share"}
     /\ IsFailureVariant(ret.r0)
     /\ ret.r0 # FAILURE_2_U32)
        => ret.kind = "abort"

\* C5 (as claimed): no two live Shares have the same class, driver and slot,
\* and no two live SubscribeUpcalls the same driver and slot.
C5_OneLivePerKey ==
    /\ \A g, h \in Live(shares) :
          (/\ shares[g].class = shares[h].class
           /\ shares[g].driver_num = shares[h].driver_num
           /\ shares[g].buffer_num = shares[h].buffer_num) => g = h
    /\ \A g, h \in Live(subs) :
          (/\ subs[g].driver_num = subs[h].driver_num
           /\ subs[g].subscribe_num = subs[h].subscribe_num) => g = h

----------------------------------------------------------------------------
\* Properties of the Executor and of Yield (under SpecExec, FairSpecExec)

AllFinished == \A k \in 1..TASKS : done[k]

\* C6: run has returned only if every task is marked done, and it has not
\* returned if some task never reports completion.
C6_RunReturnsOnlyWhenAllDone ==
    /\ pc = "returned" => AllFinished
    /\ (\E k \in 1..TASKS : task[k].forever) => pc # "returned"

\* run has returned over a task that completed at its first poll and one that
\* needed three
C6_Witness ==
    /\ pc = "returned"
    /\ TASKS = 2
    /\ task[1].n = 0
    /\ task[2].n = 2
    /\ polls[2] = 3

\* C7: if every task completes after finitely many polls, a call of run
\* returns; and after a sweep and its yield, run returns exactly when every
\* task is marked done at the end of that sweep, otherwise it starts another
\* sweep.
C7_RunTerminatesAtFirstCompleteSweep ==
    /\ (\A k \in 1..TASKS : ~task[k].forever) => ((pc = "while") ~> (pc = "returned"))
    /\ [][(pc = "while" /\ sweeps > 0 /\ pc' # pc)
            => (AllFinished <=> pc' = "returned")]_vars

\* run has returned after three sweeps
C7_Witness ==
    /\ pc = "returned"
    /\ runs = 1
    /\ sweeps = 3
    /\ TASKS = 2

OneCheckpointEach == \A k \in 1..TASKS : ~task[k].forever /\ task[k].n = 1

\* C8: over one or more tasks of exactly one checkpoint each, the first call of
\* run returns after exactly 2 sweeps and exactly 2 non-blocking yields, each
\* task polled exactly twice.
C8_TwoSweepsTwoYields ==
    (pc = "returned" /\ runs = 1 /\ TASKS >= 1 /\ OneCheckpointEach)
        => /\ sweeps = 2
           /\ calls = <<YieldNoWaitCall, YieldNoWaitCall>>
           /\ \A k \in 1..TASKS : polls[k] = 2

C8_Witness ==
    /\ pc = "returned"
    /\ runs = 1
    /\ TASKS = 2
    /\ OneCheckpointEach

\* C9: the first poll of a Yield reports Pending, every later poll Ready, and
\* a poll issues no syscall.
C9_YieldPendingThenReady ==
    /\ [](\A k \in 1..Len(reports) : reports[k] = IF k = 1 THEN "Pending" ELSE "Ready")
    /\ [][reports' # reports => calls' = calls]_vars

C9_Witness ==
    /\ Len(reports) >= 3
    /\ reports[3] = "Ready"

----------------------------------------------------------------------------
\* Properties of Ipc (under SpecIpc)

DiscoverAllow(n) == Call(ALLOW_RO, DRIVER_NUM, SEARCH, n.ptr, n.len)
DiscoverCommand == Call(COMMAND, DRIVER_NUM, DISCOVER, 0, 0)
DiscoverRevoke == Call(ALLOW_RO, DRIVER_NUM, SEARCH, 0, 0)

\* C10 (as claimed): every call of discover issues the allow of the name, then
\* the discover command, then the revoke, whatever the outcome.
C10_DiscoverAlwaysFullSequence ==
    ret.op = "Ipc::discover" =>
        \E n \in Names : calls = <<DiscoverAllow(n), DiscoverCommand, DiscoverRevoke>>

\* C10 (amended): every call of discover issues the allow of the name first
\* and the revoke last; when the allow returned the 2-register failure,
\* discover returns that error and issues no command; otherwise the discover
\* command is issued between the two, whether it succeeds or fails.
C10_DiscoverScopedSequence ==
    ret.op = "Ipc::discover" =>
        \E n \in Names :
            IF ret.at = 1
              THEN /\ calls = <<DiscoverAllow(n), DiscoverRevoke>>
                   /\ ret.kind = "Err"
                   /\ ret.r0 = FAILURE_2_U32
              ELSE /\ calls = <<DiscoverAllow(n), DiscoverCommand, DiscoverRevoke>>
                   /\ ret.at = 2

\* discover has returned the error of a failed command after the full sequence
C10_Witness ==
    /\ ret.op = "Ipc::discover"
    /\ ret.kind = "Err"
    /\ ret.at = 2
    /\ Len(calls) = 3

----------------------------------------------------------------------------
\* Failed acquisitions

\* the most recent operation was a Share::new or SubscribeUpcall::new whose
\* syscall the kernel answered with the 2-register failure
NewFailed(r, x) ==
    /\ r.op \in {"Share::new", "SubscribeUpcall::new"}
    /\ Len(x.replies) = 1
    /\ x.replies[1].r0 = FAILURE_2_U32

\* a value of the pool comes into being in this step
Constructed(pool, pool2) ==
    {h \in DOMAIN pool : pool[h].st = "unused" /\ pool2[h].st # "unused"}

\* C13 (state part): a Share::new or SubscribeUpcall::new whose syscall got
\* the 2-register failure with code E has issued that one syscall only and
\* has returned Err(E).
C13_FailedNewReturnsCode ==
    NewFailed(ret, io) =>
        /\ ret.kind = "Err"
        /\ ret.val = io.replies[1].r1
        /\ Len(calls) = 1
        /\ calls[1].class \in {ALLOW_RO, ALLOW_RW} => calls[1].a3 = io.args.data.len
        /\ calls[1].class = SUBSCRIBE => calls[1].a2 = KUP_FUNC

\* C13 (step part): the failed call produces no Share and no SubscribeUpcall;
\* a value only comes into being in a call that returns it as Ok; and a
\* revoke or unsubscribe is issued only by the drop of a value that was live,
\* so none is ever issued for the failed attempt.
C13_FailedNewStep ==
    /\ NewFailed(ret', io') => shares' = shares /\ subs' = subs
    /\ \A h \in Constructed(shares, shares') :
           ret'.op = "Share::new" /\ ret'.kind = "Ok" /\ ret'.val = h
    /\ \A h \in Constructed(subs, subs') :
           ret'.op = "SubscribeUpcall::new" /\ ret'.kind = "Ok" /\ ret'.val = h
    /\ ret'.op = "drop Share" => shares[ret'.val].st = "live"
    /\ ret'.op = "drop SubscribeUpcall" => subs[ret'.val].st = "live"

\* C13: a failed acquisition returns the kernel's code, produces no guard and
\* is never revoked.
C13_FailedNewLeavesNothing ==
    [](C13_FailedNewReturnsCode) /\ [][C13_FailedNewStep]_vars

\* Share::new was failed with SIZE after another Share had been dropped, and
\* the pool holds that released Share only
C13_Witness ==
    /\ ret.op = "Share::new"
    /\ ret.kind = "Err"
    /\ ret.val = SIZE
    /\ io.replies = <<[r0 |-> FAILURE_2_U32, r1 |-> SIZE]>>
    /\ Used(shares) = {1}
    /\ shares[1].st = "released"

----------------------------------------------------------------------------
\* Results of the IPC operations

\* the reply the most recent operation decoded into its result
DecodedReply == io.replies[ret.at]

\* C11: when Ipc::discover gets as far as its DISCOVER command, a success
\* reply carrying the value v is returned as Ok(ServiceId v), and a 2-register
\* failure reply carrying the code E is returned as exactly Err(E).
C11_DiscoverReturnsKernelValue ==
    (ret.op = "Ipc::discover" /\ ret.at = 2) =>
        /\ Len(io.replies) = 2
        /\ calls[2] = Call(COMMAND, DRIVER_NUM, DISCOVER, 0, 0)
        /\ ~IsFailureVariant(DecodedReply.r0) =>
               ret.kind = "Ok" /\ ret.val = DecodedReply.r1
        /\ DecodedReply.r0 = FAILURE_2_U32 =>
               ret.kind = "Err" /\ ret.val = DecodedReply.r1

\* discover("shell") was answered success with value 7 and returned Ok(7)
C11_Witness ==
    /\ ret.op = "Ipc::discover"
    /\ ret.at = 2
    /\ io.replies[2] = [r0 |-> SUCCESS_U32, r1 |-> 7]
    /\ ret.kind = "Ok"
    /\ ret.val = 7

\* the one syscall each of these operations is to issue for its arguments
OneSyscallOf(op, args) ==
    CASE op = "Ipc::notify_service" ->
           Call(COMMAND, DRIVER_NUM, NOTIFY_SERVICE, args.svc_id, 0)
      [] op = "Ipc::notify_client" ->
           Call(COMMAND, DRIVER_NUM, NOTIFY_CLIENT, args.svc_id, 0)
      [] op = "Ipc::share" ->
           Call(ALLOW_RW, DRIVER_NUM, args.svc_id, args.buf.ptr, args.buf.len)

\* C12: notify_service(id), notify_client(id) and share(id, buf) each issue
\* exactly one syscall (command 2 with id, command 3 with id, allow-read-write
\* of buf to slot id, all on the IPC driver) and return its decoded result: Ok
\* on a success reply, exactly Err(E) on a 2-register failure carrying E.
C12_OneSyscallResultUnchanged ==
    ret.op \in {"Ipc::notify_service", "Ipc::notify_client", "Ipc::share"} =>
        /\ calls = <<OneSyscallOf(ret.op, io.args)>>
        /\ Len(io.replies) = 1
        /\ ret.at = 1
        /\ ~IsFailureVariant(DecodedReply.r0) => ret.kind = "Ok"
        /\ DecodedReply.r0 = FAILURE_2_U32 =>
               ret.kind = "Err" /\ ret.val = DecodedReply.r1

\* share(1, buf) was failed by the kernel with SIZE and returned Err(SIZE)
C12_Witness ==
    /\ ret.op = "Ipc::share"
    /\ io.args.svc_id = 1
    /\ io.replies = <<[r0 |-> FAILURE_2_U32, r1 |-> SIZE]>>
    /\ ret.kind = "Err"
    /\ ret.val = SIZE

----------------------------------------------------------------------------
\* The IPC upcall

\* C18: an invocation of the upcall installed by Ipc::register with
\* (peer_id, len, ptr, cbptr) calls the callback at cbptr exactly once, with
\* peer_id and with the empty view if ptr is null, whatever len is, and with
\* the view of exactly len bytes at ptr otherwise.
C18_UpcallDeliversOnce ==
    ret.op = "kernel_upcall" =>
        /\ Len(delivered) = 1
        /\ delivered[1].cb = io.args.cbptr
        /\ delivered[1].cb = ksub[<<DRIVER_NUM, 0>>].data
             \/ delivered[1].cb = ksub[<<DRIVER_NUM, 1>>].data
        /\ delivered[1].pid = io.args.target
        /\ io.args.ptr = 0 => delivered[1].buf.len = 0
        /\ io.args.ptr # 0 =>
               delivered[1].buf = [ptr |-> io.args.ptr, len |-> io.args.len]

\* the upcall was invoked for peer 1 with a null pointer and a length of 8
\* and the callback at 128 got the empty view
C18_Witness ==
    /\ ret.op = "kernel_upcall"
    /\ io.args = [target |-> 1, len |-> 8, ptr |-> 0, cbptr |-> 128]
    /\ delivered = <<[cb |-> 128, pid |-> 1, buf |-> EMPTY_BUF]>>

----------------------------------------------------------------------------
\* No teardown of IPC bindings and grants

IsNullSubscribe(c) == c.class = SUBSCRIBE /\ c.a0 = DRIVER_NUM /\ c.a2 = 0
IsZeroLenAllowRw(c) == c.class = ALLOW_RW /\ c.a0 = DRIVER_NUM /\ c.a3 = 0

\* the kernel holds a callback binding / a read-write grant for the service
Registered(id) == ksub[<<DRIVER_NUM, id>>].fn # 0
Sharing(id) == kallow[<<ALLOW_RW, DRIVER_NUM, id>>].len # 0

\* the step is the caller's own register / share for the service
ExplicitRegister(id) == ret'.op = "Ipc::register" /\ io'.args.svc_id = id
ExplicitShare(id) == ret'.op = "Ipc::share" /\ io'.args.svc_id = id

\* C14 (state part): when register / share return after the kernel accepted
\* the syscall, the binding / the grant is in place.
C14_InPlaceOnReturn ==
    /\ (ret.op = "Ipc::register" /\ ~IsFailureVariant(DecodedReply.r0)) =>
           ksub[<<DRIVER_NUM, io.args.svc_id>>] =
               [fn |-> IPC_KUP_FUNC, data |-> io.args.cb, owner |-> 0]
    /\ (ret.op = "Ipc::share" /\ ~IsFailureVariant(DecodedReply.r0)
            /\ io.args.buf.len # 0) =>
           kallow[<<ALLOW_RW, DRIVER_NUM, io.args.svc_id>>] =
               [ptr |-> io.args.buf.ptr, len |-> io.args.buf.len, owner |-> 0]

\* C14 (step part): no operation issues a null-binding subscribe, and none
\* issues a zero-length read-write allow other than the caller's own share
\* of an empty buffer; a binding / grant the kernel holds for a service is
\* left as it is by every operation but the caller's own register / share
\* for that service.
C14_NoTeardownStep ==
    /\ \A n \in 1..Len(calls') :
          /\ ~IsNullSubscribe(calls'[n])
          /\ IsZeroLenAllowRw(calls'[n]) =>
                 ExplicitShare(calls'[n].a1) /\ io'.args.buf.len = 0
    /\ \A id \in Slots :
          /\ Registered(id) =>
                 \/ ksub'[<<DRIVER_NUM, id>>] = ksub[<<DRIVER_NUM, id>>]
                 \/ ExplicitRegister(id)
          /\ Sharing(id) =>
                 \/ kallow'[<<ALLOW_RW, DRIVER_NUM, id>>] =
                        kallow[<<ALLOW_RW, DRIVER_NUM, id>>]
                 \/ ExplicitShare(id)

\* C14: after a successful register(id, cb) or share(id, buf) the binding and
\* the grant stay in place until the caller replaces them.
C14_NoAutomaticTeardown ==
    [](C14_InPlaceOnReturn) /\ [][C14_NoTeardownStep]_vars

\* service 0 is registered and shared with, and discover has since run its
\* allow, command and revoke on the read-only slot 0
C14_Witness ==
    /\ Registered(0)
    /\ Sharing(0)
    /\ ret.op = "Ipc::discover"
    /\ Len(calls) = 3

----------------------------------------------------------------------------
\* The Executor's yields

\* C15: during Executor::run the only syscalls are non-blocking yields, one
\* after every sweep: inside a sweep (in the for loop, or past it and before
\* the yield) one yield fewer than sweeps has been issued, between sweeps and
\* at the return of run exactly as many yields as sweeps.
C15_OneYieldPerSweep ==
    /\ \A n \in 1..Len(calls) : calls[n] = YieldNoWaitCall
    /\ pc = "new" => calls = <<>>
    /\ pc \in {"for", "yield"} => Len(calls) = sweeps - 1
    /\ pc \in {"while", "returned"} => Len(calls) = sweeps

\* run has returned for a single task awaiting two checkpoints: three sweeps,
\* the second without any task finishing, and three yields
C15_Witness ==
    /\ pc = "returned"
    /\ TASKS = 1
    /\ task[1].n = 2
    /\ sweeps = 3
    /\ Len(calls) = 3

----------------------------------------------------------------------------
\* The order of polls

\* the tasks not yet marked done
Unfinished == {k \in 1..TASKS : ~done[k]}

\* the sweep under way has already passed index k
Swept(k) == pc # "for" \/ k < i

\* C16 (state part): an unfinished task has been polled once in every sweep
\* that has reached it, so never more than once per sweep, and an unfinished
\* task never has more polls than an unfinished task of lower index.
C16_PollsFollowIndex ==
    /\ \A k \in Unfinished :
           polls[k] = IF Swept(k) THEN sweeps ELSE sweeps - 1
    /\ \A j, k \in Unfinished : j < k => polls[k] <= polls[j]

\* C16 (step part): a poll is given to the task at the index the sweep stands
\* at, one poll at a time, and the sweep then moves to the next index.
C16_PollStep ==
    \A k \in 1..TASKS :
        polls'[k] # polls[k] =>
            /\ pc = "for"
            /\ k = i
            /\ ~done[k]
            /\ polls'[k] = polls[k] + 1
            /\ i' = i + 1
            /\ \A j \in 1..TASKS : j # k => polls'[j] = polls[j]

\* C16: every sweep polls the unfinished tasks in increasing index order,
\* each at most once.
C16_SweepInIndexOrder ==
    [](C16_PollsFollowIndex) /\ [][C16_PollStep]_vars

\* in the middle of the second sweep of two unfinished tasks the first has
\* been polled twice and the second once
C16_Witness ==
    /\ pc = "for"
    /\ TASKS = 2
    /\ i = 2
    /\ Unfinished = {1, 2}
    /\ polls = <<2, 1>>

----------------------------------------------------------------------------
\* Upcalls and sweeps

\* C17 (state part): every task polled in the sweep under way, or in the one
\* just made, saw the same value of the state that upcalls mutate.
C17_OneViewPerSweep == Cardinality(seen) <= 1

\* C17 (step part): the state that upcalls mutate changes only in the step
\* that issues the yield after the for loop, by the upcall the kernel runs
\* there; an upcall queued during a sweep waits until then.
C17_DeliveryStep ==
    shared' # shared =>
        /\ pc = "yield"
        /\ pc' = "while"
        /\ calls' = Append(calls, YieldNoWaitCall)
        /\ pending > 0
        /\ shared' = shared + 1

\* C17: while run drives tasks that issue no syscalls, upcalls are delivered
\* at the per-sweep yield only, never between two polls of one sweep.
C17_UpcallsOnlyAtYield ==
    [](C17_OneViewPerSweep) /\ [][C17_DeliveryStep]_vars

\* both tasks of the second sweep have been polled after one upcall was
\* delivered at the first yield, and a second upcall is waiting for the yield
\* that ends this sweep
C17_Witness ==
    /\ pc = "yield"
    /\ TASKS = 2
    /\ polls = <<2, 2>>
    /\ seen = {1}
    /\ shared = 1
    /\ pending = 1

----------------------------------------------------------------------------
\* Finished tasks

\* C19 (step part): a done flag that is set stays set, and a task marked
\* done is not polled in any later step, of this run or of a later one.
C19_DoneStep ==
    \A k \in 1..TASKS :
        done[k] => done'[k] /\ polls'[k] = polls[k] /\ task'[k] = task[k]

\* C19 (state part): a later call of run on an Executor whose tasks have all
\* finished sweeps once, polls nothing and yields once.
C19_LaterRun ==
    (runs >= 2 /\ TASKS >= 1) =>
        /\ \A k \in 1..TASKS : done[k]
        /\ pc = "returned" => sweeps = 1 /\ calls = <<YieldNoWaitCall>>

\* C19: finished flags never go back to false and a finished task is never
\* polled again.
C19_FinishedStaysFinished ==
    [](C19_LaterRun) /\ [][C19_DoneStep]_vars

\* the second call of run has returned on an Executor of two tasks, the
\* first of which had finished one sweep before the second did
C19_Witness ==
    /\ runs = 2
    /\ pc = "returned"
    /\ TASKS = 2
    /\ polls = <<1, 2>>

----------------------------------------------------------------------------
\* The Executor of no tasks

\* C20: an Executor of zero tasks never sweeps and never yields: run goes
\* from its call to the test of the loop and from there to its return.
C20_NoTasksNoSweep ==
    TASKS = 0 =>
        /\ pc \in {"new", "while", "returned"}
        /\ sweeps = 0
        /\ calls = <<>>
        /\ all_done = 0

\* run has been called on an Executor of zero tasks and has returned
C20_Witness ==
    /\ TASKS = 0
    /\ runs = 1
    /\ pc = "returned"

\* the IPC protocol of apis/kernel/ipc/src/lib.rs
NextIpc ==
    \/ \E n \in Names, a \in Responses, c \in CommandResponses : IpcDiscover(n, a, c)
    \/ \E id \in Slots, cb \in Callbacks, r \in Responses : IpcRegister(id, cb, r)
    \/ \E id \in Slots, b \in StaticBufs, r \in Responses : IpcShare(id, b, r)
    \/ \E r \in ExistsResponses : IpcExists(r)
    \/ \E id \in Slots, r \in UnitCommandResponses : IpcNotifyService(id, r)
    \/ \E id \in Slots, r \in UnitCommandResponses : IpcNotifyClient(id, r)
    \/ \E id \in Slots, t \in Peers, b \in UpcallBufs : IpcUpcall(id, t, b)

SpecIpc == Init /\ [][NextIpc]_vars

\* the Executor and the checkpoint of platform/src/async_helpers.rs
NextExec ==
    \/ RunCall
    \/ WhileTest
    \/ ForStep
    \/ YieldNoWait
    \/ PollCheckpoint
    \/ UpcallQueued

SpecExec == InitExec /\ [][NextExec]_vars

\* run is sequential code: once called it keeps executing
FairSpecExec ==
    SpecExec /\ WF_vars(WhileTest) /\ WF_vars(ForStep) /\ WF_vars(YieldNoWait)

====
